---- MODULE Spec2Model ----
(***************************************************************************)
(* Model of the Ifthar management server: the two JSON documents           *)
(* ("settings", "appdata"), the backup log with its rotation and restore,   *)
(* and the update feed with its photos.                                     *)
(*                                                                          *)
(* The repository holds three near-identical servers:                       *)
(*   "file"     src/server.js:1-247    documents and backups are files      *)
(*   "nobackup" src/server.js:249-427  documents are files, no backups      *)
(*   "mongo"    src/unnamed/part_000   documents, backups and photos in     *)
(*                                     MongoDB / GridFS                     *)
(* `variant` says which server runs; it never changes.                      *)
(*                                                                          *)
(* Documents are opaque JSON objects (express.json() accepts only objects   *)
(* and arrays, so a stored document is never falsy).  Two stand-ins are     *)
(* enough: "a" is the object {} and "w" is the object {"settings": {}},     *)
(* whose top-level key matters when restore reads a file that is not a      *)
(* backup.  JSON.stringify / JSON.parse of a value that JSON.parse produced *)
(* gives the value back, which is why a stored document is kept as the      *)
(* value itself; an absent file or an absent store entry is Null.           *)
(***************************************************************************)
EXTENDS Integers, Sequences, FiniteSets, TLC

VARIABLES
    variant,      \* which of the three servers
    faulty,       \* whether the storage under the server may fail (never changes)
    settings,     \* SETTINGS_FILE / store entry "settings": a document or Null
    appdata,      \* APPDATA_FILE / store entry "appdata": a document or Null
    backupDir,    \* file server: the files of BACKUP_DIR (a set, keyed by filename)
    backupsColl,  \* mongo server: the documents of collection "backups", in natural order
    updates,      \* the feed (UPDATES_FILE / store entry "updates"), newest first
    uploads,      \* the photo files of UPLOADS_DIR
    gridfs,       \* mongo server: the filenames held by GridFS bucket "photos"
    clock,        \* the millisecond the wall clock last showed
    nextId,       \* source of the fresh ids and photo names (time prefix + random suffix)
    ops,          \* number of state-changing requests served so far
    made,         \* history: every backup createBackup has persisted, oldest first
    pre,          \* history: documents and backup log as the last request found them
    last,         \* the last request and its response
    inflight,     \* mongo server: the requests whose handlers are between two awaits
    twin          \* a mongo server served the same requests as the file server

vars == <<variant, faulty, settings, appdata, backupDir, backupsColl, updates,
          uploads, gridfs, clock, nextId, ops, made, pre, last, inflight,
          twin>>

docVars == <<settings, appdata, backupDir, backupsColl, made>>
feedVars == <<updates, uploads, gridfs, nextId>>

\* ------------------------------------------------------------------ bounds

MAX_BACKUPS == 20

\* State-changing requests per run on sound storage.
MaxOps == 3

\* State-changing requests per run on storage that may fail.
MaxFaultOps == 2

\* ------------------------------------------------------------------ values

Null == "null"

\* Request bodies of POST /api/settings and POST /api/data.
Bodies == {"a", "w"}

\* backup.settings / backup.appdata of a parsed JSON document that is not a
\* backup: "w" is {"settings": {}}, every other document has neither key.
Field(doc, key) ==
    IF doc = "w" /\ key = "settings" THEN "a" ELSE Null

\* `if (x)` on a document or null: objects are truthy, null and undefined are not.
Truthy(v) == v # Null

Variants == {"file", "nobackup", "mongo"}

\* No second server runs.
NoTwin ==
    [settings |-> Null, appdata |-> Null, coll |-> << >>, updates |-> << >>,
     uploads |-> {}, gridfs |-> {}, status |-> 0, body |-> Null]

\* ------------------------------------------------------------------ filenames

\* A filename is pre ++ stem ++ dirs ++ ext.  The stem of a backup is its
\* timestamp, now.toISOString().replace(/[:.]/g, '-'): one stamp per
\* millisecond, and for stamps of equal length the order of the strings is the
\* order of the milliseconds, so the stem is kept as the millisecond itself.
\* `dirs` is non-empty only for names with path segments in them.
BackupName(now) ==
    [pre |-> "backup-", stem |-> now, dirs |-> "", ext |-> ".json"]

\* A name check that one matching end satisfies; C4 fails with it.
IsBackupName_Either(f) ==
    f.pre = "backup-" \/ f.ext = ".json"

\* filename.startsWith('backup-') && filename.endsWith('.json')
IsBackupName(f) ==
    f.pre = "backup-" /\ f.ext = ".json"

\* A millisecond no run goes beyond: the clock starts at MAX_BACKUPS and each
\* state-changing request moves it on by at most one.
LastStamp == MAX_BACKUPS + MaxOps + MaxFaultOps

\* Array.prototype.sort() on a list of backup filenames: they differ in the
\* stamp alone, so the sorted list is the stamps in ascending order, each
\* kept when its name is in the list.
SortNames(S) ==
    SelectSeq([t \in 1..LastStamp |-> BackupName(t)], LAMBDA f : f \in S)

\* A listing without .reverse(); C15 fails with it.
Reverse_Forgotten(s) == s

\* Array.prototype.reverse()
Reverse(s) == [i \in 1..Len(s) |-> s[Len(s) + 1 - i]]

Range(s) == {s[i] : i \in DOMAIN s}

\* The elements of sequence c whose positions are not in ids, in order.
RemoveAt(c, ids) ==
    LET F[i \in 0..Len(c)] ==
            IF i = 0 THEN << >>
            ELSE IF i \in ids THEN F[i - 1] ELSE Append(F[i - 1], c[i])
    IN  F[Len(c)]

\* ------------------------------------------------------------------ blob store

\* getDoc (mongo): the stored data, or null when the entry is absent or the
\* read throws (the catch returns null).
GetDoc(stored, fails) ==
    IF fails THEN Null ELSE stored

\* File servers: fs.existsSync(F) ? JSON.parse(fs.readFileSync(F)) : null
ReadFile(stored) == stored

\* A store that writes only an absent entry; C7 fails with it.
SetDoc_KeepOld(old, data) ==
    IF old = Null THEN data ELSE old

\* setDoc / fs.writeFileSync(F, JSON.stringify(data)): the whole value is
\* replaced, nothing of the old one is kept.
SetDoc(old, data) == data

\* ------------------------------------------------------------------ backup manager

\* A step of a handler that the storage may fail, per server; "none" is the
\* run in which every call succeeds.
BackupFaults(v) ==
    CASE v = "file"     -> {"read", "write", "evict"}
      [] v = "mongo"    -> {"getSettings", "getAppdata", "insert", "count", "delete"}
      [] v = "nobackup" -> {}

\* fs.writeFileSync(path, ...) in a directory: a file of that name is replaced.
WriteFile(dir, file) ==
    {g \in dir : g.filename # file.filename} \cup {file}

\* The backup file createBackup writes: { settings, appdata }, modified now.
BackupFile(s, a, now) ==
    [filename |-> BackupName(now), settings |-> s, appdata |-> a, created |-> now]

\* Lines 34-37: the sorted backup names, shifted off the front while more
\* than MAX_BACKUPS are left; each shifted name is unlinked.
Shifted(files) ==
    IF Len(files) > MAX_BACKUPS
    THEN Range(SubSeq(files, 1, Len(files) - MAX_BACKUPS))
    ELSE {}

\* A createBackup without the early return of line 28; C8 fails with it.
FileCreateBackup_NoSkip(s, a, dir, now, fault) ==
    LET d1 == WriteFile(dir, BackupFile(ReadFile(s), ReadFile(a), now))
    IN  {[log |-> d1, did |-> TRUE]}

\* createBackup of the file server.  Every exception is caught and logged, so
\* a failing step ends the function with what was done so far.  The result is
\* the directory afterwards and whether a backup file was written.
FileCreateBackup(s, a, dir, now, fault) ==
    IF fault = "read" THEN {[log |-> dir, did |-> FALSE]}
    ELSE LET settingsData == ReadFile(s)
             appData == ReadFile(a)
         IN  IF ~Truthy(settingsData) /\ ~Truthy(appData)
             THEN {[log |-> dir, did |-> FALSE]}
             ELSE IF fault = "write" THEN {[log |-> dir, did |-> FALSE]}
             ELSE LET d1 == WriteFile(dir, BackupFile(settingsData, appData, now))
                      files == SortNames({f.filename : f \in
                                   {g \in d1 : IsBackupName(g.filename)}})
                  IN  IF fault = "evict"
                      THEN {[log |-> d1, did |-> TRUE]}
                      ELSE {[log |-> {g \in d1 : g.filename \notin Shifted(files)},
                             did |-> TRUE]}

\* find().sort({ created: 1 }).limit(k): the positions of k oldest documents.
\* MongoDB leaves the order of documents with equal sort keys open, so every
\* choice among equal `created` values is a possible result.
RECURSIVE OldestK(_, _, _)
OldestK(c, chosen, k) ==
    IF k = 0 THEN {chosen}
    ELSE LET rest == DOMAIN c \ chosen
             mins == {i \in rest : \A j \in rest : c[i].created <= c[j].created}
         IN  UNION {OldestK(c, chosen \cup {i}, k - 1) : i \in mins}

\* createBackup of the mongo server.  getDoc turns a failing read into null;
\* every other exception is caught and logged.
MongoCreateBackup(s, a, coll, now, fault) ==
    LET settingsData == GetDoc(s, fault = "getSettings")
        appData == GetDoc(a, fault = "getAppdata")
    IN  IF ~Truthy(settingsData) /\ ~Truthy(appData)
        THEN {[log |-> coll, did |-> FALSE]}
        ELSE IF fault = "insert" THEN {[log |-> coll, did |-> FALSE]}
        ELSE LET c1 == Append(coll, BackupFile(settingsData, appData, now))
                 count == Len(c1)
             IN  IF fault = "count" \/ count <= MAX_BACKUPS
                 THEN {[log |-> c1, did |-> TRUE]}
                 ELSE IF fault = "delete"
                 THEN {[log |-> c1, did |-> TRUE]}
                 ELSE {[log |-> RemoveAt(c1, ids), did |-> TRUE] :
                          ids \in OldestK(c1, {}, count - MAX_BACKUPS)}

\* ------------------------------------------------------------------ restore

NoBackup == [settings |-> Null, appdata |-> Null]

RestoreFaults(v) ==
    CASE v = "file"     -> {"read", "setSettings", "setAppdata"}
      [] v = "mongo"    -> {"findOne", "setSettings", "setAppdata"}
      [] v = "nobackup" -> {}

\* path.join(BACKUP_DIR, filename) of the file server, as the file it names.
\* path.join normalises: in "backup-0../../../settings.json" the segment
\* "backup-0.." is cancelled by the first "..", BACKUP_DIR's "backups" by the
\* second, and the path is DATA_DIR/settings.json, that is SETTINGS_FILE.
\* (Express decodes %2F in a route parameter, so such a filename arrives.)
ResolvePath(filename) ==
    CASE filename.dirs = "" -> "backupDir"
      [] filename.dirs = "../../../settings" /\ filename.ext = ".json" -> "settingsFile"
      [] filename.dirs = "../../../appdata" /\ filename.ext = ".json" -> "appdataFile"
      [] OTHER -> "nothing"

\* fs.existsSync(filePath)
FileExists(filename, s, a, dir) ==
    CASE ResolvePath(filename) = "backupDir" -> \E g \in dir : g.filename = filename
      [] ResolvePath(filename) = "settingsFile" -> s # Null
      [] ResolvePath(filename) = "appdataFile" -> a # Null
      [] OTHER -> FALSE

\* JSON.parse(fs.readFileSync(filePath)), read as { settings, appdata }.
ParseBackup(filename, s, a, dir) ==
    CASE ResolvePath(filename) = "backupDir" ->
             LET g == CHOOSE g \in dir : g.filename = filename
             IN  [settings |-> g.settings, appdata |-> g.appdata]
      [] ResolvePath(filename) = "settingsFile" ->
             [settings |-> Field(s, "settings"), appdata |-> Field(s, "appdata")]
      [] ResolvePath(filename) = "appdataFile" ->
             [settings |-> Field(a, "settings"), appdata |-> Field(a, "appdata")]

\* A restore that replaces both documents, null snapshots included; C3 fails
\* with it.
ApplyBackup_Both(backup, s, a, fault) ==
    [status |-> 200, settings |-> SetDoc(s, backup.settings),
     appdata |-> SetDoc(a, backup.appdata)]

\* if (backup.settings) write settings; if (backup.appdata) write appdata;
\* res.json({ ok: true }).  A write that throws ends the handler with 500 and
\* leaves what was written before it.
ApplyBackup(backup, s, a, fault) ==
    IF Truthy(backup.settings) /\ fault = "setSettings"
    THEN [status |-> 500, settings |-> s, appdata |-> a]
    ELSE LET s1 == IF Truthy(backup.settings) THEN SetDoc(s, backup.settings) ELSE s
         IN  IF Truthy(backup.appdata) /\ fault = "setAppdata"
             THEN [status |-> 500, settings |-> s1, appdata |-> a]
             ELSE [status |-> 200, settings |-> s1,
                   appdata |-> IF Truthy(backup.appdata)
                               THEN SetDoc(a, backup.appdata) ELSE a]

Outcome(status, s, a, lookup, backup) ==
    [status |-> status, settings |-> s, appdata |-> a, lookup |-> lookup,
     backup |-> backup]

\* POST /api/backups/restore/:filename of the file server.
FileRestore(filename, s, a, dir, fault) ==
    IF ~IsBackupName(filename)
    THEN Outcome(400, s, a, "none", NoBackup)
    ELSE IF ~FileExists(filename, s, a, dir)
    THEN Outcome(404, s, a, "miss", NoBackup)
    ELSE IF fault = "read"
    THEN Outcome(500, s, a, "hit", NoBackup)
    ELSE LET backup == ParseBackup(filename, s, a, dir)
             r == ApplyBackup(backup, s, a, fault)
         IN  Outcome(r.status, r.settings, r.appdata, "hit", backup)

\* db.collection('backups').findOne({ filename }): the first match in natural
\* order, or null.
FindOne(coll, filename) ==
    LET hits == {i \in DOMAIN coll : coll[i].filename = filename}
    IN  IF hits = {} THEN 0 ELSE CHOOSE i \in hits : \A j \in hits : i <= j

\* POST /api/backups/restore/:filename of the mongo server.
MongoRestore(filename, s, a, coll, fault) ==
    IF ~IsBackupName(filename)
    THEN Outcome(400, s, a, "none", NoBackup)
    ELSE IF fault = "findOne"
    THEN Outcome(500, s, a, "miss", NoBackup)
    ELSE IF FindOne(coll, filename) = 0
    THEN Outcome(404, s, a, "miss", NoBackup)
    ELSE LET b == coll[FindOne(coll, filename)]
             backup == [settings |-> b.settings, appdata |-> b.appdata]
             r == ApplyBackup(backup, s, a, fault)
         IN  Outcome(r.status, r.settings, r.appdata, "hit", backup)

\* ------------------------------------------------------------------ listBackups

\* Stand-in for the length of a document's JSON text: null, {} and
\* {"settings": {}} (pretty-printed by the file server).
JsonLength(v) ==
    CASE v = Null -> 4
      [] v = "a"  -> 2
      [] v = "w"  -> 20

\* GET /api/backups of the file server: the backup names sorted and reversed,
\* each with the file's size and modification time.
FileListBackups(dir) ==
    LET files == Reverse(SortNames({g.filename : g \in
                     {h \in dir : IsBackupName(h.filename)}}))
    IN  {[i \in 1..Len(files) |->
            LET stat == CHOOSE g \in dir : g.filename = files[i]
            IN  [filename |-> files[i],
                 size |-> JsonLength(stat.settings) + JsonLength(stat.appdata),
                 created |-> stat.created]]}

\* Every order of the positions in set P.
RECURSIVE Orders(_)
Orders(P) ==
    IF P = {} THEN {<< >>}
    ELSE UNION {{<<i>> \o t : t \in Orders(P \ {i})} : i \in P}

\* find().sort({ created: -1 }).toArray(): every order of the documents that
\* is descending in `created`; documents of equal `created` come in any order
\* (MongoDB leaves the order of equal sort keys open).  Built stamp by stamp,
\* from stamp t downwards.
RECURSIVE SortedDesc(_, _)
SortedDesc(c, t) ==
    IF t = 0 THEN {<< >>}
    ELSE LET same == {i \in DOMAIN c : c[i].created = t}
         IN  {[k \in 1..Len(o) |-> c[o[k]]] \o rest :
                 o \in Orders(same), rest \in SortedDesc(c, t - 1)}

\* GET /api/backups of the mongo server: size is the length of the whole
\* document's JSON text (_id, filename and created included).
MongoListBackups(coll) ==
    {[i \in 1..Len(L) |->
        [filename |-> L[i].filename,
         size |-> JsonLength(L[i].settings) + JsonLength(L[i].appdata) + 100,
         created |-> L[i].created]] : L \in SortedDesc(coll, LastStamp)}

\* The possible answers of listBackups() in the current state.
ListBackups ==
    CASE variant = "file"  -> FileListBackups(backupDir)
      [] variant = "mongo" -> MongoListBackups(backupsColl)
      [] OTHER -> {}

\* ------------------------------------------------------------------ update feed

\* A form field that the request does not carry.
Undefined == "undefined"

\* A default that only a missing field gets; C11 fails with it.
OrElse_MissingOnly(x, d) == IF x = Undefined THEN d ELSE x

\* x || d on a form field: undefined and '' are falsy.
OrElse(x, d) == IF x = Undefined \/ x = "" THEN d ELSE x

\* parseInt(day) || 0 on the day fields the requests carry: "3" is 3, "7x" is
\* 7, and undefined, '' and "abc" parse to NaN, which is falsy.
ParseDay(d) ==
    CASE d = "3"  -> 3
      [] d = "7x" -> 7
      [] OTHER    -> 0

\* Request bodies (multipart fields) of POST /api/updates.
FeedBodies ==
    {[staff |-> Undefined, message |-> Undefined, type |-> Undefined, day |-> Undefined],
     [staff |-> "", message |-> "", type |-> "", day |-> ""],
     [staff |-> "", message |-> "", type |-> "", day |-> "abc"],
     [staff |-> "Aisha", message |-> "served", type |-> "meal", day |-> "3"]}

\* '/uploads/' + req.file.filename
PhotoRef(name) == [dir |-> "/uploads/", name |-> name]

NoPhoto == [dir |-> "", name |-> 0]

\* The file a photo reference names in UPLOADS_DIR:
\* path.join(__dirname, 'data', update.photo) of the file servers,
\* update.photo.replace('/uploads/', '') of the mongo server.
PhotoName(photo) == photo.name

\* The update record POST /api/updates builds.  The id (time prefix and six
\* random characters) and the photo's filename are taken as never repeating,
\* which the random suffix is there for: nextId numbers them.
NewUpdate(id, body, photo, now) ==
    [id |-> id,
     staff |-> OrElse(body.staff, "Anonymous"),
     message |-> OrElse(body.message, ""),
     type |-> OrElse(body.type, "general"),
     day |-> ParseDay(body.day),
     photo |-> photo,
     timestamp |-> now]

\* readUpdates() / (await getDoc('updates')) || []: a failing read gives [].
ReadUpdates(feed, fault) ==
    IF fault = "read" THEN << >> ELSE feed

InsertFaults(v) ==
    IF v = "mongo" THEN {"multer", "read", "gridfs", "write"}
    ELSE {"multer", "read", "write"}

DeleteFaults(v) ==
    IF v = "mongo" THEN {"read", "unlink", "gridfs", "write"}
    ELSE {"read", "unlink", "write"}

FeedOutcome(status, feed, up, grid, update) ==
    [status |-> status, updates |-> feed, uploads |-> up, gridfs |-> grid,
     update |-> update]

\* A handler that sets the reference only after the upload succeeded; the
\* amended C6 fails with it.
MongoStorePhoto_NullOnFailure(hasPhoto, name, grid, fault) ==
    IF ~hasPhoto THEN [photo |-> NoPhoto, gridfs |-> grid]
    ELSE IF fault = "gridfs" THEN [photo |-> NoPhoto, gridfs |-> grid]
    ELSE [photo |-> PhotoRef(name), gridfs |-> grid \cup {name}]

\* The photo field and the GridFS bucket after the mongo server's lines
\* 265-272: the reference is set first, then the upload is tried and a
\* failure of it only logged.
MongoStorePhoto(hasPhoto, name, grid, fault) ==
    IF ~hasPhoto THEN [photo |-> NoPhoto, gridfs |-> grid]
    ELSE IF fault = "gridfs" THEN [photo |-> PhotoRef(name), gridfs |-> grid]
    ELSE [photo |-> PhotoRef(name), gridfs |-> grid \cup {name}]

\* POST /api/updates.  upload.single('photo') runs first: multer writes the
\* photo into UPLOADS_DIR under a fresh name, and when it fails the handler is
\* never called (Express answers 500).  Then the handler: read the feed, build
\* the record, (mongo: upload to GridFS), unshift, write the feed.
Insert(v, feed, up, grid, body, hasPhoto, id, now, fault) ==
    IF hasPhoto /\ fault = "multer"
    THEN FeedOutcome(500, feed, up, grid, NewUpdate(id, body, NoPhoto, now))
    ELSE LET up1 == IF hasPhoto THEN up \cup {id} ELSE up
             list == ReadUpdates(feed, fault)
             st == IF v = "mongo" THEN MongoStorePhoto(hasPhoto, id, grid, fault)
                   ELSE [photo |-> IF hasPhoto THEN PhotoRef(id) ELSE NoPhoto,
                         gridfs |-> grid]
             update == NewUpdate(id, body, st.photo, now)
         IN  IF fault = "write"
             THEN FeedOutcome(500, feed, up1, st.gridfs, update)
             ELSE FeedOutcome(200, <<update>> \o list, up1, st.gridfs, update)

\* updates.find(u => u.id === id): the first record of that id, if any.
FindUpdate(list, id) ==
    LET hits == {i \in DOMAIN list : list[i].id = id}
    IN  IF hits = {} THEN 0 ELSE CHOOSE i \in hits : \A j \in hits : i <= j

\* A removal by updates.splice(updates.findIndex(...), 1): an id that is not
\* found gives index -1, and the last record goes; C12 fails with it.
FilterOut_Splice(list, id) ==
    IF FindUpdate(list, id) = 0
    THEN SubSeq(list, 1, Len(list) - 1)
    ELSE RemoveAt(list, {FindUpdate(list, id)})

\* updates.filter(u => u.id !== id)
FilterOut(list, id) ==
    SelectSeq(list, LAMBDA u : u.id # id)

\* A cleanup that forgets GridFS; C5 fails with it.
DeletePhoto_LocalOnly(v, up, grid, name, fault) ==
    [uploads |-> up \ {name}, gridfs |-> grid]

\* The photo stores after the delete handler's cleanup of one photo: the
\* local file is unlinked when it exists; the mongo server then deletes every
\* GridFS file of that name, and swallows a failure of that.
DeletePhoto(v, up, grid, name, fault) ==
    [uploads |-> up \ {name},
     gridfs |-> IF v = "mongo" /\ fault # "gridfs" THEN grid \ {name} ELSE grid]

\* DELETE /api/updates/:id
Delete(v, feed, up, grid, id, fault) ==
    LET list == ReadUpdates(feed, fault)
        i == FindUpdate(list, id)
        hasPhoto == i # 0 /\ list[i].photo # NoPhoto
        name == IF hasPhoto THEN PhotoName(list[i].photo) ELSE 0
        found == IF i # 0 THEN list[i] ELSE NewUpdate(0, [staff |-> "", message |-> "",
                                                type |-> "", day |-> ""], NoPhoto, 0)
    IN  IF hasPhoto /\ name \in up /\ fault = "unlink"
        THEN FeedOutcome(500, feed, up, grid, found)
        ELSE LET st == IF hasPhoto THEN DeletePhoto(v, up, grid, name, fault)
                       ELSE [uploads |-> up, gridfs |-> grid]
             IN  IF fault = "write"
                 THEN FeedOutcome(500, feed, st.uploads, st.gridfs, found)
                 ELSE FeedOutcome(200, FilterOut(list, id), st.uploads, st.gridfs, found)

\* GET /uploads/:filename: express.static(UPLOADS_DIR) of the file servers;
\* the mongo server tries the local file, then GridFS.
Retrieve(v, up, grid, name, fault) ==
    IF v = "mongo"
    THEN IF name \in up THEN 200
         ELSE IF fault = "read" THEN 500
         ELSE IF name \in grid THEN 200 ELSE 404
    ELSE IF name \in up THEN 200 ELSE 404


\* ------------------------------------------------------------------ requests

\* The number of state-changing requests a run serves.
OpBound == IF faulty THEN MaxFaultOps ELSE MaxOps

\* The faults a request may meet: none when the storage is sound.
Faults(S) == IF faulty THEN {"none"} \cup S ELSE {"none"}

\* new Date(): the clock shows the same millisecond as at the last request, or
\* a later one.
Nows == {clock, clock + 1}

Found == [settings |-> settings, appdata |-> appdata,
          dir |-> backupDir, coll |-> backupsColl, made |-> Len(made),
          updates |-> updates, uploads |-> uploads, gridfs |-> gridfs]

\* The request served and its answer; `fault` is the step that failed in it.
Resp(op, arg, status, body, lookup, backup, fault) ==
    [op |-> op, arg |-> arg, status |-> status, body |-> body,
     lookup |-> lookup, backup |-> backup, fault |-> fault]

\* createBackup() of the running server; the server without backups has none.
CreateBackup(now, fault) ==
    CASE variant = "file" ->
             {[dir |-> r.log, coll |-> backupsColl, did |-> r.did] :
                 r \in FileCreateBackup(settings, appdata, backupDir, now, fault)}
      [] variant = "mongo" ->
             {[dir |-> backupDir, coll |-> r.log, did |-> r.did] :
                 r \in MongoCreateBackup(settings, appdata, backupsColl, now, fault)}
      [] variant = "nobackup" ->
             {[dir |-> backupDir, coll |-> backupsColl, did |-> FALSE]}

\* What createBackup persisted, for the history.
Persisted(now, fault) ==
    BackupFile(GetDoc(settings, fault = "getSettings"),
               GetDoc(appdata, fault = "getAppdata"), now)

\* A handler whose catch answers { ok: true }; C13 fails with it.
PostSettings_Swallow(body, now, fault) ==
    /\ ops < OpBound
    /\ \E r \in CreateBackup(now, fault) :
         /\ backupDir' = r.dir
         /\ backupsColl' = r.coll
         /\ made' = IF r.did THEN Append(made, Persisted(now, fault)) ELSE made
    /\ settings' = IF fault = "setDoc" THEN settings ELSE SetDoc(settings, body)
    /\ last' = Resp("postSettings", body, 200, Null, "none", NoBackup, fault)
    /\ pre' = Found
    /\ clock' = now
    /\ ops' = ops + 1
    /\ UNCHANGED <<variant, faulty, inflight, appdata, feedVars>>

\* A handler whose createBackup() lets its exceptions through to the
\* handler's catch; C23 fails with it.
PostSettings_BackupThrows(body, now, fault) ==
    /\ ops < OpBound
    /\ \E r \in CreateBackup(now, fault) :
         /\ backupDir' = r.dir
         /\ backupsColl' = r.coll
         /\ made' = IF r.did THEN Append(made, Persisted(now, fault)) ELSE made
    /\ settings' = IF fault # "none" THEN settings ELSE SetDoc(settings, body)
    /\ last' = Resp("postSettings", body, IF fault # "none" THEN 500 ELSE 200,
                    Null, "none", NoBackup, fault)
    /\ pre' = Found
    /\ clock' = now
    /\ ops' = ops + 1
    /\ UNCHANGED <<variant, faulty, inflight, appdata, feedVars>>

\* POST /api/settings: createBackup(), then the document is written; an
\* exception of the write answers 500.
PostSettings(body, now, fault) ==
    /\ ops < OpBound
    /\ \E r \in CreateBackup(now, fault) :
         /\ backupDir' = r.dir
         /\ backupsColl' = r.coll
         /\ made' = IF r.did THEN Append(made, Persisted(now, fault)) ELSE made
    /\ settings' = IF fault = "setDoc" THEN settings ELSE SetDoc(settings, body)
    /\ last' = Resp("postSettings", body, IF fault = "setDoc" THEN 500 ELSE 200,
                    Null, "none", NoBackup, fault)
    /\ pre' = Found
    /\ clock' = now
    /\ ops' = ops + 1
    /\ UNCHANGED <<variant, faulty, inflight, appdata, feedVars>>

\* POST /api/data
PostData(body, now, fault) ==
    /\ ops < OpBound
    /\ \E r \in CreateBackup(now, fault) :
         /\ backupDir' = r.dir
         /\ backupsColl' = r.coll
         /\ made' = IF r.did THEN Append(made, Persisted(now, fault)) ELSE made
    /\ appdata' = IF fault = "setDoc" THEN appdata ELSE SetDoc(appdata, body)
    /\ last' = Resp("postData", body, IF fault = "setDoc" THEN 500 ELSE 200,
                    Null, "none", NoBackup, fault)
    /\ pre' = Found
    /\ clock' = now
    /\ ops' = ops + 1
    /\ UNCHANGED <<variant, faulty, inflight, settings, feedVars>>

\* A handler that answers 404 for a document never written; C14 fails with it.
GetSettings_NotFound(fault) ==
    /\ last' = Resp("getSettings", Null, IF settings = Null THEN 404 ELSE 200,
                    GetDoc(settings, fault = "read"), "none", NoBackup, fault)
    /\ pre' = Found
    /\ UNCHANGED <<variant, faulty, inflight, docVars, feedVars, clock, ops>>

\* GET /api/settings: the document, or null when it is absent or the read fails.
GetSettings(fault) ==
    /\ last' = Resp("getSettings", Null, 200, GetDoc(settings, fault = "read"),
                    "none", NoBackup, fault)
    /\ pre' = Found
    /\ UNCHANGED <<variant, faulty, inflight, docVars, feedVars, clock, ops>>

\* GET /api/data
GetData(fault) ==
    /\ last' = Resp("getData", Null, 200, GetDoc(appdata, fault = "read"),
                    "none", NoBackup, fault)
    /\ pre' = Found
    /\ UNCHANGED <<variant, faulty, inflight, docVars, feedVars, clock, ops>>

\* GET /api/backups: the listing, or [] when reading the log fails.
GetBackups(fault) ==
    /\ variant # "nobackup"
    /\ \E L \in ListBackups :
         last' = Resp("getBackups", Null, 200, IF fault = "read" THEN << >> ELSE L,
                      "none", NoBackup, fault)
    /\ pre' = Found
    /\ UNCHANGED <<variant, faulty, inflight, docVars, feedVars, clock, ops>>

\* restore(filename) of the running server.
Restore(filename, fault) ==
    IF variant = "file"
    THEN FileRestore(filename, settings, appdata, backupDir, fault)
    ELSE MongoRestore(filename, settings, appdata, backupsColl, fault)

\* A restore handler that calls createBackup() as the write handlers do; C9
\* fails with it.
RestoreBackup_BackupFirst(filename, fault) ==
    /\ variant # "nobackup"
    /\ ops < OpBound
    /\ LET r == Restore(filename, fault)
       IN  /\ settings' = r.settings
           /\ appdata' = r.appdata
           /\ last' = Resp("restore", filename, r.status, Null, r.lookup, r.backup, fault)
           /\ ops' = IF r.status \in {400, 404} THEN ops ELSE ops + 1
    /\ \E c \in CreateBackup(clock, "none") :
         /\ backupDir' = c.dir
         /\ backupsColl' = c.coll
         /\ made' = IF c.did THEN Append(made, Persisted(clock, "none")) ELSE made
    /\ pre' = Found
    /\ UNCHANGED <<variant, faulty, inflight, feedVars, clock>>

\* POST /api/backups/restore/:filename.  An answer of 400 or 404 changes
\* nothing and is not counted as a state-changing request.
RestoreBackup(filename, fault) ==
    /\ variant # "nobackup"
    /\ ops < OpBound
    /\ LET r == Restore(filename, fault)
       IN  /\ settings' = r.settings
           /\ appdata' = r.appdata
           /\ last' = Resp("restore", filename, r.status, Null, r.lookup, r.backup, fault)
           /\ ops' = IF r.status \in {400, 404} THEN ops ELSE ops + 1
    /\ pre' = Found
    /\ UNCHANGED <<variant, faulty, inflight, backupDir, backupsColl, made, feedVars, clock>>

\* The filenames tried on restore: backups that exist or not, names that do
\* not match backup-*.json, and names whose path leaves BACKUP_DIR.
EtcPasswd == [pre |-> "../etc/", stem |-> 0, dirs |-> "", ext |-> "passwd"]

Traversal(doc) ==
    [pre |-> "backup-", stem |-> 0, dirs |-> "../../../" \o doc, ext |-> ".json"]

RestoreNames ==
    {BackupName(t) : t \in {1, MAX_BACKUPS, MAX_BACKUPS + 1}}
    \cup {EtcPasswd,
          [pre |-> "backup-", stem |-> 1, dirs |-> "", ext |-> ".txt"],
          [pre |-> "old-", stem |-> 1, dirs |-> "", ext |-> ".json"]}
    \cup {Traversal("settings"), Traversal("appdata")}

\* ------------------------------------------------------------------ start

\* A data directory (or database) that earlier runs of the server left: after
\* a document has been written MAX_BACKUPS + 1 times, one millisecond apart,
\* the log holds MAX_BACKUPS backups of it, stamped 1..MAX_BACKUPS.
AgedLog(s, a) ==
    [i \in 1..MAX_BACKUPS |-> BackupFile(s, a, i)]

InitFeed ==
    /\ updates = << >>
    /\ uploads = {}
    /\ gridfs = {}
    /\ nextId = 1

InitDocs ==
    /\ variant \in Variants
    /\ \E age \in {"fresh", "settings", "appdata"} :
         /\ settings = IF age = "settings" THEN "a" ELSE Null
         /\ appdata = IF age = "appdata" THEN "a" ELSE Null
         /\ backupDir = IF variant = "file" /\ age # "fresh"
                        THEN Range(AgedLog(settings, appdata)) ELSE {}
         /\ backupsColl = IF variant = "mongo" /\ age # "fresh"
                          THEN AgedLog(settings, appdata) ELSE << >>
         /\ made = IF variant # "nobackup" /\ age # "fresh"
                   THEN AgedLog(settings, appdata) ELSE << >>
    /\ clock = MAX_BACKUPS
    /\ ops = 0
    /\ pre = Found
    /\ last = Resp("start", Null, 200, Null, "none", NoBackup, "none")

\* POST /api/updates
PostUpdate(body, hasPhoto, now, fault) ==
    /\ ops < OpBound
    /\ LET r == Insert(variant, updates, uploads, gridfs, body, hasPhoto,
                       nextId, now, fault)
       IN  /\ updates' = r.updates
           /\ uploads' = r.uploads
           /\ gridfs' = r.gridfs
           /\ last' = Resp("insert", [body |-> body, photo |-> hasPhoto], r.status,
                           r.update, "none", NoBackup, fault)
    /\ nextId' = nextId + 1
    /\ pre' = Found
    /\ clock' = now
    /\ ops' = ops + 1
    /\ UNCHANGED <<variant, faulty, inflight, docVars>>

\* DELETE /api/updates/:id
DeleteUpdate(id, fault) ==
    /\ ops < OpBound
    /\ LET r == Delete(variant, updates, uploads, gridfs, id, fault)
       IN  /\ updates' = r.updates
           /\ uploads' = r.uploads
           /\ gridfs' = r.gridfs
           /\ last' = Resp("delete", id, r.status, r.update, "none", NoBackup, fault)
    /\ pre' = Found
    /\ ops' = ops + 1
    /\ UNCHANGED <<variant, faulty, inflight, docVars, nextId, clock>>

\* GET /api/updates: the feed, or [] when reading it fails.
GetUpdates(fault) ==
    /\ last' = Resp("getUpdates", Null, 200, ReadUpdates(updates, fault),
                    "none", NoBackup, fault)
    /\ pre' = Found
    /\ UNCHANGED <<variant, faulty, inflight, docVars, feedVars, clock, ops>>

\* GET /uploads/:filename
GetUpload(name, fault) ==
    /\ last' = Resp("getUpload", name,
                    Retrieve(variant, uploads, gridfs, name, fault), Null,
                    "none", NoBackup, fault)
    /\ pre' = Found
    /\ UNCHANGED <<variant, faulty, inflight, docVars, feedVars, clock, ops>>

Init ==
    /\ faulty = FALSE
    /\ InitFeed
    /\ InitDocs
    /\ inflight = << >>
    /\ twin = NoTwin

Next ==
    \/ \E body \in Bodies, now \in Nows, fault \in Faults(BackupFaults(variant) \cup {"setDoc"}) :
         PostSettings(body, now, fault) /\ UNCHANGED twin
    \/ \E body \in Bodies, now \in Nows, fault \in Faults(BackupFaults(variant) \cup {"setDoc"}) :
         PostData(body, now, fault) /\ UNCHANGED twin
    \/ \E fault \in Faults({"read"}) : GetSettings(fault) /\ UNCHANGED twin
    \/ \E fault \in Faults({"read"}) : GetData(fault) /\ UNCHANGED twin
    \/ \E fault \in Faults({"read"}) : GetBackups(fault) /\ UNCHANGED twin
    \/ \E filename \in RestoreNames, fault \in Faults(RestoreFaults(variant)) :
         RestoreBackup(filename, fault) /\ UNCHANGED twin

Spec == Init /\ [][Next]_vars

\* The same server on storage that may fail.
InitFault ==
    /\ faulty = TRUE
    /\ InitFeed
    /\ InitDocs
    /\ inflight = << >>
    /\ twin = NoTwin

SpecFault == InitFault /\ [][Next]_vars

\* The feed and its photos, on a server whose documents were never written.
InitFeedOnly ==
    /\ variant \in Variants
    /\ settings = Null
    /\ appdata = Null
    /\ backupDir = {}
    /\ backupsColl = << >>
    /\ made = << >>
    /\ clock = MAX_BACKUPS
    /\ ops = 0
    /\ pre = Found
    /\ last = Resp("start", Null, 200, Null, "none", NoBackup, "none")

NextFeed ==
    \/ \E body \in FeedBodies, hasPhoto \in BOOLEAN, now \in Nows,
          fault \in Faults(InsertFaults(variant)) :
         PostUpdate(body, hasPhoto, now, fault) /\ UNCHANGED twin
    \/ \E id \in 1..nextId, fault \in Faults(DeleteFaults(variant)) :
         DeleteUpdate(id, fault) /\ UNCHANGED twin
    \/ \E fault \in Faults({"read"}) : GetUpdates(fault) /\ UNCHANGED twin
    \/ \E name \in 1..nextId, fault \in Faults({"read"}) : GetUpload(name, fault) /\ UNCHANGED twin

InitFeedSound ==
    /\ faulty = FALSE
    /\ InitFeed
    /\ InitFeedOnly
    /\ inflight = << >>
    /\ twin = NoTwin

InitFeedFault ==
    /\ faulty = TRUE
    /\ InitFeed
    /\ InitFeedOnly
    /\ inflight = << >>
    /\ twin = NoTwin

SpecFeed == InitFeedSound /\ [][NextFeed]_vars

SpecFeedFault == InitFeedFault /\ [][NextFeed]_vars

\* ------------------------------------------------------------------ concurrent writes

\* The handlers of the mongo server are async functions: each `await` of a
\* database call hands control back to the event loop, and the handler of
\* another request may run before the call's result is delivered.  A handler
\* is modelled one database call at a step.  (The handlers of the file servers
\* make synchronous fs calls only and run from start to response in one turn
\* of the event loop: the actions above model them whole.)

\* Requests in flight in a run of the mongo server.
MaxRequests == 2

Min(x, y) == IF x < y THEN x ELSE y

\* A POST /api/settings or POST /api/data that has not arrived yet.  `s`, `a`
\* and `now` are settingsData, appData and now of its createBackup(), `count`
\* its count, `victims` its ids (kept as positions in the collection), `did`
\* whether it inserted a backup, `found` the documents just before its write.
NewWrite ==
    [op |-> "none", body |-> Null, pc |-> "new", s |-> Null, a |-> Null,
     now |-> 0, did |-> FALSE, count |-> 0, victims |-> {}, found |-> NoBackup]

\* The position of the document at position i once the documents at the
\* positions P, i not among them, are deleted.
Moved(i, P) == i - Cardinality({p \in P : p < i})

\* The request arrives and its handler calls createBackup().
WriteArrives(r, op, body) ==
    /\ inflight[r].pc = "new"
    /\ IF r = 1 THEN TRUE ELSE inflight[r - 1].pc # "new"
    /\ inflight' = [inflight EXCEPT ![r] =
                       [@ EXCEPT !.op = op, !.body = body, !.pc = "getSettings"]]
    /\ UNCHANGED <<variant, faulty, docVars, feedVars, clock, ops, pre, last>>

\* const settingsData = await getDoc('settings')
ReadSettings(r) ==
    /\ inflight[r].pc = "getSettings"
    /\ inflight' = [inflight EXCEPT ![r] =
                       [@ EXCEPT !.s = GetDoc(settings, FALSE), !.pc = "getAppdata"]]
    /\ UNCHANGED <<variant, faulty, docVars, feedVars, clock, ops, pre, last>>

\* const appData = await getDoc('appdata'); if (!settingsData && !appData)
\* return; const now = new Date()
ReadAppdata(r, now) ==
    /\ inflight[r].pc = "getAppdata"
    /\ LET appData == GetDoc(appdata, FALSE)
       IN  IF ~Truthy(inflight[r].s) /\ ~Truthy(appData)
           THEN /\ inflight' = [inflight EXCEPT ![r] =
                                   [@ EXCEPT !.a = appData, !.pc = "setDoc"]]
                /\ clock' = clock
           ELSE /\ inflight' = [inflight EXCEPT ![r] =
                                   [@ EXCEPT !.a = appData, !.now = now,
                                             !.pc = "insertOne"]]
                /\ clock' = now
    /\ UNCHANGED <<variant, faulty, docVars, feedVars, ops, pre, last>>

\* await db.collection('backups').insertOne({ filename, settings, appdata, created })
InsertOne(r) ==
    /\ inflight[r].pc = "insertOne"
    /\ LET doc == BackupFile(inflight[r].s, inflight[r].a, inflight[r].now)
       IN  /\ backupsColl' = Append(backupsColl, doc)
           /\ made' = Append(made, doc)
    /\ inflight' = [inflight EXCEPT ![r] =
                       [@ EXCEPT !.did = TRUE, !.pc = "countDocuments"]]
    /\ UNCHANGED <<variant, faulty, settings, appdata, backupDir, feedVars,
                   clock, ops, pre, last>>

\* const count = await db.collection('backups').countDocuments();
\* if (count > MAX_BACKUPS)
CountDocuments(r) ==
    /\ inflight[r].pc = "countDocuments"
    /\ inflight' = [inflight EXCEPT ![r] =
                       [@ EXCEPT !.count = Len(backupsColl),
                                 !.pc = IF Len(backupsColl) > MAX_BACKUPS
                                        THEN "find" ELSE "setDoc"]]
    /\ UNCHANGED <<variant, faulty, docVars, feedVars, clock, ops, pre, last>>

\* const oldest = await find().sort({ created: 1 }).limit(count - MAX_BACKUPS)
\* .toArray(); const ids = oldest.map(b => b._id)
FindOldest(r) ==
    /\ inflight[r].pc = "find"
    /\ \E ids \in OldestK(backupsColl, {},
                         Min(inflight[r].count - MAX_BACKUPS, Len(backupsColl))) :
         inflight' = [inflight EXCEPT ![r] =
                         [@ EXCEPT !.victims = ids, !.pc = "deleteMany"]]
    /\ UNCHANGED <<variant, faulty, docVars, feedVars, clock, ops, pre, last>>

\* await db.collection('backups').deleteMany({ _id: { $in: ids } }): the
\* documents of these ids that are still there go.
DeleteMany(r) ==
    /\ inflight[r].pc = "deleteMany"
    /\ backupsColl' = RemoveAt(backupsColl, inflight[r].victims)
    /\ inflight' = [q \in DOMAIN inflight |->
                       IF q = r
                       THEN [inflight[q] EXCEPT !.victims = {}, !.pc = "setDoc"]
                       ELSE [inflight[q] EXCEPT !.victims =
                                {Moved(i, inflight[r].victims) :
                                    i \in inflight[q].victims \ inflight[r].victims}]]
    /\ UNCHANGED <<variant, faulty, settings, appdata, backupDir, made, feedVars,
                   clock, ops, pre, last>>

\* await setDoc(key, req.body); res.json({ ok: true })
StoreDoc(r) ==
    /\ inflight[r].pc = "setDoc"
    /\ IF inflight[r].op = "postSettings"
       THEN settings' = SetDoc(settings, inflight[r].body) /\ appdata' = appdata
       ELSE appdata' = SetDoc(appdata, inflight[r].body) /\ settings' = settings
    /\ inflight' = [inflight EXCEPT ![r] =
                       [@ EXCEPT !.pc = "done",
                                 !.found = [settings |-> settings, appdata |-> appdata]]]
    /\ last' = Resp(inflight[r].op, inflight[r].body, 200, Null, "none", NoBackup, "none")
    /\ pre' = Found
    /\ ops' = ops + 1
    /\ UNCHANGED <<variant, faulty, backupDir, backupsColl, made, feedVars, clock>>

InitWrites ==
    /\ faulty = FALSE
    /\ InitFeed
    /\ InitDocs
    /\ variant = "mongo"
    /\ inflight = [r \in 1..MaxRequests |-> NewWrite]
    /\ twin = NoTwin

NextWrites ==
    \/ \E r \in 1..MaxRequests, op \in {"postSettings", "postData"}, body \in Bodies :
         WriteArrives(r, op, body) /\ UNCHANGED twin
    \/ \E r \in 1..MaxRequests : ReadSettings(r) /\ UNCHANGED twin
    \/ \E r \in 1..MaxRequests, now \in Nows : ReadAppdata(r, now) /\ UNCHANGED twin
    \/ \E r \in 1..MaxRequests : InsertOne(r) /\ UNCHANGED twin
    \/ \E r \in 1..MaxRequests : CountDocuments(r) /\ UNCHANGED twin
    \/ \E r \in 1..MaxRequests : FindOldest(r) /\ UNCHANGED twin
    \/ \E r \in 1..MaxRequests : DeleteMany(r) /\ UNCHANGED twin
    \/ \E r \in 1..MaxRequests : StoreDoc(r) /\ UNCHANGED twin

SpecWrites == InitWrites /\ [][NextWrites]_vars

\* ------------------------------------------------------------------ concurrent feed requests

\* The record of no update.
NoUpdate ==
    NewUpdate(0, [staff |-> "", message |-> "", type |-> "", day |-> ""], NoPhoto, 0)

\* A POST /api/updates or DELETE /api/updates/:id of the mongo server that has
\* not arrived yet.  `id` is the id of the record the request inserts or
\* deletes, `list` is its `updates`, `update` its `update`.
NewFeedRequest ==
    [op |-> "none", form |-> [staff |-> "", message |-> "", type |-> "", day |-> ""],
     hasPhoto |-> FALSE, id |-> 0, pc |-> "new", list |-> << >>, update |-> NoUpdate]

\* POST /api/updates arrives: upload.single('photo') writes the photo into
\* UPLOADS_DIR, then the handler calls getDoc('updates').
InsertArrives(r, form, hasPhoto) ==
    /\ inflight[r].pc = "new"
    /\ IF r = 1 THEN TRUE ELSE inflight[r - 1].pc # "new"
    /\ inflight' = [inflight EXCEPT ![r] =
                       [@ EXCEPT !.op = "insert", !.form = form, !.hasPhoto = hasPhoto,
                                 !.id = nextId, !.pc = "getDoc"]]
    /\ uploads' = IF hasPhoto THEN uploads \cup {nextId} ELSE uploads
    /\ nextId' = nextId + 1
    /\ UNCHANGED <<variant, faulty, docVars, updates, gridfs, clock, ops, pre, last>>

\* DELETE /api/updates/:id arrives and its handler calls getDoc('updates').
DeleteArrives(r, id) ==
    /\ inflight[r].pc = "new"
    /\ IF r = 1 THEN TRUE ELSE inflight[r - 1].pc # "new"
    /\ inflight' = [inflight EXCEPT ![r] =
                       [@ EXCEPT !.op = "delete", !.id = id, !.pc = "getDoc"]]
    /\ UNCHANGED <<variant, faulty, docVars, feedVars, clock, ops, pre, last>>

\* POST: const updates = (await getDoc('updates')) || []; const update = {...};
\* if (req.file) update.photo = '/uploads/' + req.file.filename
InsertReadsFeed(r, now) ==
    /\ inflight[r].pc = "getDoc" /\ inflight[r].op = "insert"
    /\ inflight' = [inflight EXCEPT ![r] =
           [@ EXCEPT !.list = ReadUpdates(updates, "none"),
                     !.update = NewUpdate(inflight[r].id, inflight[r].form,
                                          IF inflight[r].hasPhoto
                                          THEN PhotoRef(inflight[r].id) ELSE NoPhoto,
                                          now),
                     !.pc = IF inflight[r].hasPhoto THEN "uploadToGridFS" ELSE "setDoc"]]
    /\ clock' = now
    /\ UNCHANGED <<variant, faulty, docVars, feedVars, ops, pre, last>>

\* DELETE: let updates = (await getDoc('updates')) || []; const update =
\* updates.find(...); if (update && update.photo) the local file is unlinked
\* when it exists.
DeleteReadsFeed(r) ==
    /\ inflight[r].pc = "getDoc" /\ inflight[r].op = "delete"
    /\ LET list == ReadUpdates(updates, "none")
           i == FindUpdate(list, inflight[r].id)
           hasPhoto == i # 0 /\ list[i].photo # NoPhoto
       IN  /\ inflight' = [inflight EXCEPT ![r] =
                  [@ EXCEPT !.list = list,
                            !.update = IF i # 0 THEN list[i] ELSE NoUpdate,
                            !.pc = IF hasPhoto THEN "deleteFromGridFS" ELSE "setDoc"]]
           /\ uploads' = IF hasPhoto THEN uploads \ {PhotoName(list[i].photo)}
                         ELSE uploads
    /\ UNCHANGED <<variant, faulty, docVars, updates, gridfs, nextId, clock, ops,
                   pre, last>>

\* await uploadToGridFS(req.file.path, req.file.filename)
UploadToGridFS(r) ==
    /\ inflight[r].pc = "uploadToGridFS"
    /\ gridfs' = gridfs \cup {inflight[r].id}
    /\ inflight' = [inflight EXCEPT ![r] = [@ EXCEPT !.pc = "setDoc"]]
    /\ UNCHANGED <<variant, faulty, docVars, updates, uploads, nextId, clock, ops,
                   pre, last>>

\* try { await deleteFromGridFS(filename) } catch (e) {}
DeleteFromGridFS(r) ==
    /\ inflight[r].pc = "deleteFromGridFS"
    /\ gridfs' = gridfs \ {PhotoName(inflight[r].update.photo)}
    /\ inflight' = [inflight EXCEPT ![r] = [@ EXCEPT !.pc = "setDoc"]]
    /\ UNCHANGED <<variant, faulty, docVars, updates, uploads, nextId, clock, ops,
                   pre, last>>

\* POST: updates.unshift(update); DELETE: updates = updates.filter(...);
\* then await setDoc('updates', updates) and the answer.
WriteFeed(r) ==
    /\ inflight[r].pc = "setDoc"
    /\ updates' = IF inflight[r].op = "insert"
                  THEN <<inflight[r].update>> \o inflight[r].list
                  ELSE FilterOut(inflight[r].list, inflight[r].id)
    /\ inflight' = [inflight EXCEPT ![r] = [@ EXCEPT !.pc = "done"]]
    /\ last' = Resp(inflight[r].op, inflight[r].id, 200, inflight[r].update,
                    "none", NoBackup, "none")
    /\ pre' = Found
    /\ ops' = ops + 1
    /\ UNCHANGED <<variant, faulty, docVars, uploads, gridfs, nextId, clock>>

\* A feed that an earlier insert with a photo left.
InitFeedOfOne ==
    /\ updates = <<NewUpdate(1, [staff |-> "Aisha", message |-> "served",
                                 type |-> "meal", day |-> "3"],
                             PhotoRef(1), MAX_BACKUPS)>>
    /\ uploads = {1}
    /\ gridfs = {1}
    /\ nextId = 2

InitFeedRequests ==
    /\ faulty = FALSE
    /\ InitFeed \/ InitFeedOfOne
    /\ InitFeedOnly
    /\ variant = "mongo"
    /\ inflight = [r \in 1..MaxRequests |-> NewFeedRequest]
    /\ twin = NoTwin

NextFeedRequests ==
    \/ \E r \in 1..MaxRequests, form \in FeedBodies, hasPhoto \in BOOLEAN :
         InsertArrives(r, form, hasPhoto) /\ UNCHANGED twin
    \/ \E r \in 1..MaxRequests, id \in 1..nextId : DeleteArrives(r, id) /\ UNCHANGED twin
    \/ \E r \in 1..MaxRequests, now \in Nows : InsertReadsFeed(r, now) /\ UNCHANGED twin
    \/ \E r \in 1..MaxRequests : DeleteReadsFeed(r) /\ UNCHANGED twin
    \/ \E r \in 1..MaxRequests : UploadToGridFS(r) /\ UNCHANGED twin
    \/ \E r \in 1..MaxRequests : DeleteFromGridFS(r) /\ UNCHANGED twin
    \/ \E r \in 1..MaxRequests : WriteFeed(r) /\ UNCHANGED twin

SpecFeedRequests == InitFeedRequests /\ [][NextFeedRequests]_vars

\* ------------------------------------------------------------------ two servers, same requests

\* The file server (src/server.js:1-247) runs in the variables above, and a
\* mongo server (src/unnamed/part_000) is served the same requests, one after
\* another, on sound storage.  `twin` is the mongo server's state: its
\* documents, its backups collection, its feed and photo stores, and the
\* status and body of its last answer.  Both are given the same clock readings
\* and the same fresh ids and photo names.

\* POST /api/settings of the mongo server.
TwinPostSettings(body, now) ==
    \E r \in MongoCreateBackup(twin.settings, twin.appdata, twin.coll, now, "none") :
        twin' = [twin EXCEPT !.coll = r.log, !.settings = SetDoc(@, body),
                             !.status = 200, !.body = Null]

\* POST /api/data of the mongo server.
TwinPostData(body, now) ==
    \E r \in MongoCreateBackup(twin.settings, twin.appdata, twin.coll, now, "none") :
        twin' = [twin EXCEPT !.coll = r.log, !.appdata = SetDoc(@, body),
                             !.status = 200, !.body = Null]

\* GET /api/settings of the mongo server.
TwinGetSettings ==
    twin' = [twin EXCEPT !.status = 200, !.body = GetDoc(twin.settings, FALSE)]

\* GET /api/data of the mongo server.
TwinGetData ==
    twin' = [twin EXCEPT !.status = 200, !.body = GetDoc(twin.appdata, FALSE)]

\* GET /api/backups of the mongo server.
TwinGetBackups ==
    \E L \in MongoListBackups(twin.coll) :
        twin' = [twin EXCEPT !.status = 200, !.body = L]

\* POST /api/backups/restore/:filename of the mongo server.
TwinRestoreBackup(filename) ==
    LET r == MongoRestore(filename, twin.settings, twin.appdata, twin.coll, "none")
    IN  twin' = [twin EXCEPT !.settings = r.settings, !.appdata = r.appdata,
                             !.status = r.status, !.body = Null]

\* POST /api/updates of the mongo server.
TwinPostUpdate(body, hasPhoto, now) ==
    LET r == Insert("mongo", twin.updates, twin.uploads, twin.gridfs, body,
                    hasPhoto, nextId, now, "none")
    IN  twin' = [twin EXCEPT !.updates = r.updates, !.uploads = r.uploads,
                             !.gridfs = r.gridfs, !.status = r.status,
                             !.body = r.update]

\* DELETE /api/updates/:id of the mongo server.
TwinDeleteUpdate(id) ==
    LET r == Delete("mongo", twin.updates, twin.uploads, twin.gridfs, id, "none")
    IN  twin' = [twin EXCEPT !.updates = r.updates, !.uploads = r.uploads,
                             !.gridfs = r.gridfs, !.status = r.status,
                             !.body = r.update]

\* GET /api/updates of the mongo server.
TwinGetUpdates ==
    twin' = [twin EXCEPT !.status = 200, !.body = ReadUpdates(twin.updates, "none")]

\* GET /uploads/:filename of the mongo server.
TwinGetUpload(name) ==
    twin' = [twin EXCEPT !.status = Retrieve("mongo", twin.uploads, twin.gridfs,
                                             name, "none"),
                         !.body = Null]

\* Both servers after the same earlier requests: the documents are equal and
\* the collection holds the backups of the directory.
InitTwin ==
    /\ faulty = FALSE
    /\ InitFeed
    /\ InitDocs
    /\ variant = "file"
    /\ inflight = << >>
    /\ twin = [settings |-> settings, appdata |-> appdata,
               coll |-> IF backupDir = {} THEN << >> ELSE AgedLog(settings, appdata),
               updates |-> << >>, uploads |-> {}, gridfs |-> {},
               status |-> 200, body |-> Null]

NextTwin ==
    \/ \E body \in Bodies, now \in Nows :
         PostSettings(body, now, "none") /\ TwinPostSettings(body, now)
    \/ \E body \in Bodies, now \in Nows :
         PostData(body, now, "none") /\ TwinPostData(body, now)
    \/ GetSettings("none") /\ TwinGetSettings
    \/ GetData("none") /\ TwinGetData
    \/ GetBackups("none") /\ TwinGetBackups
    \/ \E filename \in RestoreNames :
         RestoreBackup(filename, "none") /\ TwinRestoreBackup(filename)
    \/ \E body \in FeedBodies, hasPhoto \in BOOLEAN, now \in Nows :
         PostUpdate(body, hasPhoto, now, "none") /\ TwinPostUpdate(body, hasPhoto, now)
    \/ \E id \in 1..nextId : DeleteUpdate(id, "none") /\ TwinDeleteUpdate(id)
    \/ GetUpdates("none") /\ TwinGetUpdates
    \/ \E name \in 1..nextId : GetUpload(name, "none") /\ TwinGetUpload(name)

SpecTwin == InitTwin /\ [][NextTwin]_vars

\* ------------------------------------------------------------------ claims

NamesOf(seq) == [i \in DOMAIN seq |-> seq[i].filename]

Count(seq, x) == Cardinality({i \in DOMAIN seq : seq[i] = x})

SameBag(s, t) == \A x \in Range(s) \cup Range(t) : Count(s, x) = Count(t, x)

LastN(seq, n) == SubSeq(seq, Len(seq) - n + 1, Len(seq))

\* The backups of the log the last request found.
FoundBackups == pre.dir \cup Range(pre.coll)

\* The newest backup of the log, if it has any: the file of greatest filename
\* of the file server, the document inserted last of the mongo server.
NewestBackups ==
    CASE variant = "file" ->
             {g \in backupDir : \A h \in backupDir : h.filename.stem <= g.filename.stem}
      [] variant = "mongo" ->
             {backupsColl[i] : i \in {j \in DOMAIN backupsColl : j = Len(backupsColl)}}
      [] OTHER -> {}

Wrote == last.op \in {"postSettings", "postData"}

\* C1: once more than MAX_BACKUPS backups have been created by writes run one
\* after another, listBackups() returns at most MAX_BACKUPS entries and they
\* are exactly the MAX_BACKUPS most recently created backups.
C1_ListIsTwentyMostRecent ==
    (~faulty /\ variant # "nobackup" /\ Len(made) > MAX_BACKUPS) =>
        \A L \in ListBackups :
            /\ Len(L) <= MAX_BACKUPS
            /\ SameBag(NamesOf(L), NamesOf(LastN(made, MAX_BACKUPS)))

\* C2: after a completed write to settings or appdata that found at least one
\* document present, the newest backup holds the values both documents had
\* just before the write.
C2_BackupHoldsPreWriteState ==
    (~faulty /\ Wrote /\ last.status = 200
        /\ (pre.settings # Null \/ pre.appdata # Null)) =>
        /\ NewestBackups # {}
        /\ \A b \in NewestBackups :
               b.settings = pre.settings /\ b.appdata = pre.appdata

\* C3: a successful restore of a backup whose appdata snapshot is null leaves
\* appdata as it was and sets settings to the backup's settings snapshot; and
\* the same with settings and appdata exchanged.
C3_RestoreIsFieldwise ==
    (last.op = "restore" /\ last.status = 200
        /\ \E b \in FoundBackups : b.filename = last.arg) =>
        /\ \E b \in FoundBackups :
               /\ b.filename = last.arg
               /\ b.settings = last.backup.settings
               /\ b.appdata = last.backup.appdata
        /\ last.backup.appdata = Null =>
               appdata = pre.appdata /\ settings = last.backup.settings
        /\ last.backup.settings = Null =>
               settings = pre.settings /\ appdata = last.backup.appdata

C3_Witness ==
    /\ last.op = "restore" /\ last.status = 200
    /\ \E b \in FoundBackups : b.filename = last.arg
    /\ last.backup.appdata = Null
    /\ pre.appdata # Null
    /\ pre.settings # last.backup.settings
    /\ appdata = pre.appdata

\* C4: restore with a filename that does not both start with "backup-" and
\* end with ".json" answers 400 before any lookup of a backup, and leaves
\* settings, appdata and the backup log as they were.
C4_BadNameIsRejectedFirst ==
    (last.op = "restore" /\ (last.arg.pre # "backup-" \/ last.arg.ext # ".json")) =>
        /\ last.status = 400
        /\ last.lookup = "none"
        /\ settings = pre.settings /\ appdata = pre.appdata
        /\ backupDir = pre.dir /\ backupsColl = pre.coll
        /\ Len(made) = pre.made

C4_Witness ==
    /\ last.op = "restore" /\ last.arg = EtcPasswd /\ last.status = 400
    /\ pre.dir \cup Range(pre.coll) # {}
    /\ ops > 0

\* C5: after a delete of an update that has a photo, served without a storage
\* failure, no record of that id is in the feed, the photo is in neither
\* UPLOADS_DIR nor GridFS, and retrieving it answers 404.
C5_DeleteRemovesPhoto ==
    (last.op = "delete" /\ last.fault = "none") =>
        \A i \in DOMAIN pre.updates :
            (pre.updates[i].id = last.arg /\ pre.updates[i].photo # NoPhoto) =>
                /\ last.status = 200
                /\ ~\E j \in DOMAIN updates : updates[j].id = last.arg
                /\ pre.updates[i].photo.name \notin uploads \cup gridfs
                /\ Retrieve(variant, uploads, gridfs, pre.updates[i].photo.name,
                            "none") = 404

C5_Witness ==
    /\ last.op = "delete" /\ last.fault = "none" /\ last.status = 200
    /\ variant = "mongo"
    /\ last.body.photo # NoPhoto
    /\ last.body.photo.name \in pre.uploads \cap pre.gridfs
    /\ Len(updates) < Len(pre.updates)

\* C6 as claimed: when storing the photo in GridFS fails during an insert, the
\* insert answers 200, the record is the head of the feed, and its photo
\* field is null.
C6_PhotoFailureLeavesPhotoNull ==
    (last.op = "insert" /\ last.arg.photo /\ last.fault = "gridfs") =>
        /\ last.status = 200
        /\ updates # << >> /\ updates[1] = last.body
        /\ last.body.photo = NoPhoto

\* C6 as amended: when the GridFS upload fails during an insert, the insert
\* answers 200 and the record is put at the head of the feed, with its photo
\* field set to '/uploads/<filename>': the file multer wrote is in UPLOADS_DIR,
\* not in GridFS, and retrieving it answers 200.
C6_PhotoFailureKeepsLocalPhoto ==
    (last.op = "insert" /\ last.arg.photo /\ last.fault = "gridfs") =>
        /\ last.status = 200
        /\ updates # << >> /\ updates[1] = last.body
        /\ Tail(updates) = pre.updates
        /\ last.body.photo # NoPhoto
        /\ last.body.photo.dir = "/uploads/"
        /\ last.body.photo.name \in uploads \ gridfs
        /\ last.body.photo.name \notin pre.uploads
        /\ Retrieve(variant, uploads, gridfs, last.body.photo.name, "none") = 200

C6_Witness ==
    /\ last.op = "insert" /\ last.arg.photo /\ last.fault = "gridfs"
    /\ last.status = 200
    /\ pre.updates # << >>
    /\ Len(updates) = Len(pre.updates) + 1

\* C11: a successful insert without a photo whose fields are all missing or
\* all empty yields a record with staff "Anonymous", type "general", day 0,
\* message "", photo null, an id no record of the feed had and the server's
\* time as timestamp, and that record is element 0 of the feed.
C11_InsertAppliesDefaults ==
    (last.op = "insert" /\ last.status = 200 /\ ~last.arg.photo
        /\ \E e \in {Undefined, ""} :
               /\ last.arg.body.staff = e /\ last.arg.body.message = e
               /\ last.arg.body.type = e /\ last.arg.body.day = e) =>
        /\ last.body.staff = "Anonymous" /\ last.body.type = "general"
        /\ last.body.day = 0 /\ last.body.message = ""
        /\ last.body.photo = NoPhoto
        /\ \A i \in DOMAIN pre.updates : pre.updates[i].id # last.body.id
        /\ last.body.timestamp = clock
        /\ updates # << >> /\ updates[1] = last.body

C11_Witness ==
    /\ last.op = "insert" /\ last.status = 200 /\ ~last.arg.photo
    /\ last.arg.body.staff = "" /\ last.arg.body.day = ""
    /\ pre.updates # << >>
    /\ updates[1].staff = "Anonymous" /\ updates[1].day = 0

\* C12: a delete, served without a storage failure, of an id that no record of
\* the feed has (never assigned, or deleted before) answers 200 and leaves the
\* feed, the uploads directory and GridFS as they were.
C12_DeleteOfUnknownIdIsNoOp ==
    (last.op = "delete" /\ last.fault = "none"
        /\ \A i \in DOMAIN pre.updates : pre.updates[i].id # last.arg) =>
        /\ last.status = 200
        /\ updates = pre.updates
        /\ uploads = pre.uploads /\ gridfs = pre.gridfs

C12_Witness ==
    /\ last.op = "delete" /\ last.fault = "none" /\ last.status = 200
    /\ \A i \in DOMAIN pre.updates : pre.updates[i].id # last.arg
    /\ pre.updates # << >> /\ pre.uploads # {}
    /\ updates = pre.updates

\* C13: a write to settings or appdata whose store call fails answers 500 and
\* leaves the document as it was; a write that answers 200 has stored its
\* value.
C13_WriteErrorIsReported ==
    /\ (Wrote /\ last.fault = "setDoc") =>
           /\ last.status = 500
           /\ settings = pre.settings /\ appdata = pre.appdata
    /\ (last.op = "postSettings" /\ last.status = 200) => settings = last.arg
    /\ (last.op = "postData" /\ last.status = 200) => appdata = last.arg

C13_Witness ==
    /\ last.op = "postSettings" /\ last.fault = "setDoc" /\ last.status = 500
    /\ pre.settings # Null /\ pre.settings # last.arg
    /\ settings = pre.settings

\* C14: a read of settings or appdata always answers 200; its body is null
\* when the document was never written, and otherwise the document, or null
\* when reading it failed.
C14_GetNeverErrors ==
    /\ last.op = "getSettings" =>
           /\ last.status = 200
           /\ settings = Null => last.body = Null
           /\ last.body \in {settings, Null}
           /\ last.fault = "none" => last.body = settings
    /\ last.op = "getData" =>
           /\ last.status = 200
           /\ appdata = Null => last.body = Null
           /\ last.body \in {appdata, Null}
           /\ last.fault = "none" => last.body = appdata

C14_Witness ==
    /\ last.op = "getSettings" /\ last.status = 200
    /\ settings = Null /\ appdata # Null
    /\ last.body = Null
    /\ ops > 0

\* The backups of the log in the current state.
LogBackups == backupDir \cup Range(backupsColl)

\* C15: on sound storage every answer of listBackups() names each backup of
\* the log once and nothing else, is ordered by creation time, newest first,
\* and each entry is the filename, size and creation time of its backup,
\* without the snapshots; GET /api/backups answers with such a list.
C15_ListIsWholeLogNewestFirst ==
    (~faulty /\ variant # "nobackup") =>
        /\ \A L \in ListBackups :
               /\ Len(L) = IF variant = "file" THEN Cardinality(backupDir)
                                              ELSE Len(backupsColl)
               /\ variant = "file" =>
                      {L[i].filename : i \in DOMAIN L} = {g.filename : g \in backupDir}
               /\ variant = "mongo" => SameBag(NamesOf(L), NamesOf(backupsColl))
               /\ \A i, j \in DOMAIN L : i < j => L[i].created >= L[j].created
               /\ \A i \in DOMAIN L :
                      /\ DOMAIN L[i] = {"filename", "size", "created"}
                      /\ \E b \in LogBackups :
                             b.filename = L[i].filename /\ b.created = L[i].created
        /\ last.op = "getBackups" => last.status = 200 /\ last.body \in ListBackups

C15_Witness ==
    /\ last.op = "getBackups" /\ last.status = 200
    /\ Len(made) > MAX_BACKUPS
    /\ Len(last.body) = MAX_BACKUPS
    /\ last.body[1].created > last.body[MAX_BACKUPS].created
    /\ last.body[1].filename = made[Len(made)].filename

\* C16: the backup a write request created holds the values the two documents
\* had just before that request's own write: nothing was written between its
\* createBackup() and its write.
C16_BackupThenWriteIsAtomic ==
    \A r \in DOMAIN inflight :
        (inflight[r].pc = "done" /\ inflight[r].did) =>
            /\ inflight[r].s = inflight[r].found.settings
            /\ inflight[r].a = inflight[r].found.appdata

\* C18: in every state, those between two steps of createBackup() included,
\* the backup log holds at most MAX_BACKUPS backups; and eviction never takes
\* the log below MAX_BACKUPS once that many backups have been created.
C18_AtMostTwentyBackups ==
    /\ Cardinality(backupDir) <= MAX_BACKUPS
    /\ Len(backupsColl) <= MAX_BACKUPS
    /\ (variant = "mongo" /\ Len(made) >= MAX_BACKUPS) =>
           Len(backupsColl) >= MAX_BACKUPS

\* C17: under every interleaving of inserts and deletes, a finished insert
\* whose id no request deletes has its record in the feed, and a finished
\* delete that found its record leaves no record of that id in the feed.
C17_FeedWritesAreSerialized ==
    \A r \in DOMAIN inflight :
        /\ (inflight[r].op = "insert" /\ inflight[r].pc = "done"
               /\ \A q \in DOMAIN inflight :
                      ~(inflight[q].op = "delete" /\ inflight[q].id = inflight[r].id)) =>
               \E i \in DOMAIN updates : updates[i].id = inflight[r].id
        /\ (inflight[r].op = "delete" /\ inflight[r].pc = "done"
               /\ inflight[r].update.id = inflight[r].id) =>
               \A i \in DOMAIN updates : updates[i].id # inflight[r].id

\* A step that changes no backup of the log.  A file of BACKUP_DIR that is
\* still there after the step has the content it had; the documents of the
\* collection after the step are documents it held before and at most one
\* new document at the end; and a backup that is gone was not newer than any
\* backup that is left.
BackupsKept ==
    /\ \A g \in backupDir :
          \/ g \in backupDir'
          \/ /\ \A h \in backupDir' : h.filename # g.filename
             /\ \A h \in backupDir' : g.created <= h.created
    /\ \A d \in Range(backupsColl') :
          \/ Count(backupsColl', d) <= Count(backupsColl, d)
          \/ /\ d = backupsColl'[Len(backupsColl')]
             /\ Count(backupsColl', d) = Count(backupsColl, d) + 1
    /\ \A e \in Range(backupsColl) :
          Count(backupsColl', e) < Count(backupsColl, e) =>
              \A f \in Range(backupsColl') : e.created <= f.created

\* C19: backups are immutable: from its creation until its eviction no step
\* changes a backup, and the only removal is that of an oldest backup.
C19_BackupsAreImmutable == [][BackupsKept]_vars

\* C20: after an insert that answered 200 the feed is the new record followed
\* by the records that were in it before, in their order; after a delete that
\* answered 200 it is the feed as it was without the records of that id.
C20_FeedOrderIsKept ==
    /\ (last.op = "insert" /\ last.status = 200) =>
           updates = <<last.body>> \o pre.updates
    /\ (last.op = "delete" /\ last.status = 200) =>
           updates = SelectSeq(pre.updates, LAMBDA u : u.id # last.arg)

\* The records of the feed whose photo field names the blob.
Owners(name) ==
    {i \in DOMAIN updates :
        updates[i].photo # NoPhoto /\ PhotoName(updates[i].photo) = name}

\* C21: after every request, those that answered an error included, each
\* photo blob in UPLOADS_DIR or GridFS is named by the photo field of exactly
\* one record of the feed.
C21_EveryPhotoHasOneOwner ==
    \A name \in uploads \cup gridfs : Cardinality(Owners(name)) = 1

\* A restore of the newest backup that answers 200, right after a write that
\* replaced a present settings document, puts that document back and leaves
\* appdata as it is.
UndoesWrite ==
    (/\ variant # "nobackup"
     /\ last.op = "postSettings" /\ last.status = 200 /\ pre.settings # Null
     /\ last'.op = "restore" /\ last'.status = 200
     /\ \E b \in NewestBackups : b.filename = last'.arg) =>
        /\ settings' = pre.settings
        /\ appdata' = appdata

\* C22: if settings holds a present value v and a write replaces it, then
\* restoring the newest backup, with no request in between, makes settings v
\* again and leaves appdata as it was before the restore.
C22_RestoreUndoesWrite == [][UndoesWrite]_vars

\* C23: a write to settings or appdata during which a step of createBackup()
\* failed (reading a document, persisting the backup, counting or evicting)
\* answers 200 and leaves the documents as the same write with a successful
\* backup leaves them: the written document is the request's value and the
\* other document is as it was.
C23_BackupFailureDoesNotFailWrite ==
    (Wrote /\ last.fault \in BackupFaults(variant)) =>
        /\ last.status = 200
        /\ last.op = "postSettings" =>
               settings = SetDoc(pre.settings, last.arg) /\ appdata = pre.appdata
        /\ last.op = "postData" =>
               appdata = SetDoc(pre.appdata, last.arg) /\ settings = pre.settings

C23_Witness ==
    /\ last.op = "postSettings" /\ last.status = 200
    /\ last.fault \in {"write", "insert"}
    /\ pre.settings # Null /\ pre.settings # last.arg
    /\ settings = last.arg
    /\ Len(made) = pre.made

\* The backups of BACKUP_DIR in the order of their filenames, and the
\* documents of the twin's collection in their order, each as filename and
\* snapshots.
FileLog ==
    LET names == SortNames({g.filename : g \in backupDir})
    IN  [i \in 1..Len(names) |->
            LET g == CHOOSE h \in backupDir : h.filename = names[i]
            IN  [filename |-> g.filename, settings |-> g.settings,
                 appdata |-> g.appdata]]

TwinLog ==
    [i \in 1..Len(twin.coll) |->
        [filename |-> twin.coll[i].filename, settings |-> twin.coll[i].settings,
         appdata |-> twin.coll[i].appdata]]

\* C24: served the same requests one after another, the file server and the
\* mongo server give the same answers and hold the same documents, the same
\* backups (filenames and snapshots, in the same order) and the same feed.
C24_ServersAreEquivalent ==
    twin.status # 0 =>
        /\ last.status = twin.status
        /\ last.op \in {"getSettings", "getData", "getBackups", "getUpdates", "insert"} =>
               last.body = twin.body
        /\ settings = twin.settings /\ appdata = twin.appdata
        /\ FileLog = TwinLog
        /\ updates = twin.updates

\* C7: after the Nth completed write to settings, get("settings") returns the
\* value of that write, whatever was stored before; the same for appdata.
C7_LastWriteWins ==
    /\ (last.op = "postSettings" /\ last.status = 200) =>
           GetDoc(settings, FALSE) = last.arg
    /\ (last.op = "postData" /\ last.status = 200) =>
           GetDoc(appdata, FALSE) = last.arg
    /\ (~faulty /\ last.op = "getSettings") => last.body = settings
    /\ (~faulty /\ last.op = "getData") => last.body = appdata

C7_Witness ==
    /\ last.op = "postSettings" /\ last.status = 200
    /\ ops = MaxOps
    /\ pre.settings # Null /\ pre.settings # last.arg
    /\ settings = last.arg

\* C8: a write that finds both documents absent, and so calls createBackup()
\* with both absent, leaves the backup log as it was: no backup is created
\* and none is evicted.
C8_NoBackupOfNothing ==
    (Wrote /\ pre.settings = Null /\ pre.appdata = Null) =>
        /\ backupDir = pre.dir /\ backupsColl = pre.coll
        /\ Len(made) = pre.made

C8_Witness ==
    /\ Wrote /\ last.status = 200
    /\ variant # "nobackup"
    /\ pre.settings = Null /\ pre.appdata = Null
    /\ settings # Null \/ appdata # Null

\* C9: whatever restore answers, the backup log after it is the backup log
\* before it: restore creates no backup and evicts none.
C9_RestoreKeepsLog ==
    last.op = "restore" =>
        /\ backupDir = pre.dir /\ backupsColl = pre.coll
        /\ Len(made) = pre.made

C9_Witness ==
    /\ last.op = "restore" /\ last.status = 200
    /\ pre.dir \cup Range(pre.coll) # {}
    /\ settings # pre.settings \/ appdata # pre.appdata

\* C10: restore with a filename that matches backup-*.json and names no
\* backup of the log answers 404 and leaves settings and appdata as they were.
C10_MissingBackupIsNotFound ==
    (~faulty /\ last.op = "restore"
        /\ last.arg.pre = "backup-" /\ last.arg.ext = ".json"
        /\ ~\E b \in FoundBackups : b.filename = last.arg) =>
        /\ last.status = 404
        /\ settings = pre.settings /\ appdata = pre.appdata

====
